---- MODULE Spec2Model ----
(***************************************************************************)
(* GridManager (src/src/gridmanager.cpp): the registry of users and        *)
(* machines, the static id counters, Save/Load, the job scheduler and      *)
(* Update.  Users and machines are heap objects named by pointers; the two *)
(* std::map collections of a manager map ids to pointers.  User, Machine   *)
(* and Job are collaborators: what the manager calls on them is logged in  *)
(* ev.trace, in call order.                                                *)
(***************************************************************************)
EXTENDS Integers, Sequences, FiniteSets, TLC

\* ------------------------------------------------------------------ bounds
MaxId == 2           \* registry runs: counters and preset ids stay <= MaxId
MaxObjs == 2         \* registry runs: users and machines on the heap at once
MaxMgrs == 2         \* GridManager objects alive at once
SchedMachines == 3   \* scheduler runs: machines registered in a run
SchedUsers == 1      \* scheduler runs: users registered in a run
NumJobs == 1         \* distinct Job objects a caller submits
MaxDiff == 2         \* Update is called with diff in 1..MaxDiff

\* ------------------------------------------------- program constants, types
NULL == 0

Mgr == 1..MaxMgrs
UPtr == 1..MaxObjs
MPtr == 1..(IF MaxObjs > SchedMachines THEN MaxObjs ELSE SchedMachines)
Job == 1..NumJobs

\* The machines a caller builds: capacity attributes fixed at construction.
\* Empty, they score 10 and 5.
MachineKinds ==
    { [maxJobs |-> 2, disk |-> 4, ram |-> 4],
      [maxJobs |-> 1, disk |-> 2, ram |-> 2] }

VARIABLES
    lastUserId,        \* GridManager::_lastUserId (static)
    lastMachineId,     \* GridManager::_lastMachineId (static)
    mgrs,              \* the GridManager objects that exist
    users,             \* users[g]: _users of manager g, id -> User*
    machines,          \* machines[g]: _machines of manager g, id -> Machine*
    uobj,              \* the User objects on the heap
    mobj,              \* the Machine objects on the heap
    ev,                \* the latest call: arguments, result, collaborator calls
    stop,              \* _stop of the manager that runs the tick loop
    runpc,             \* where the thread that called Run() is
    obs                \* what an observer of the tick loop has counted

vars ==
    << lastUserId, lastMachineId, mgrs, users, machines, uobj, mobj, ev, stop,
       runpc, obs >>

\* The tick loop's own state.
runvars == << stop, runpc, obs >>

\* --------------------------------------------------------------- std::map
EmptyMap == << >>

MapPut(m, k, v) == [x \in (DOMAIN m) \cup {k} |-> IF x = k THEN v ELSE m[x]]

MapErase(m, k) == [x \in (DOMAIN m) \ {k} |-> m[x]]

Min(S) == CHOOSE x \in S : \A y \in S : x <= y

Max(S) == CHOOSE x \in S : \A y \in S : y <= x

RECURSIVE SortedSeq(_)
SortedSeq(S) == IF S = {} THEN << >> ELSE << Min(S) >> \o SortedSeq(S \ {Min(S)})

\* The keys of a map in iteration (ascending) order.
Keys(m) == SortedSeq(DOMAIN m)

\* The mapped pointers in iteration order.
Values(m) == [i \in 1..Len(Keys(m)) |-> m[Keys(m)[i]]]

Range(f) == { f[x] : x \in DOMAIN f }

\* ------------------------------------------------------------------- heap
FreeUser == [alloc |-> FALSE, id |-> 0, owner |-> 0]

FreeMachine ==
    [alloc |-> FALSE, id |-> 0, owner |-> 0, maxJobs |-> 0, disk |-> 0, ram |-> 0,
     jobs |-> << >>]

FreeUPtrs(heap) == { p \in DOMAIN heap : ~heap[p].alloc }

FreeMPtrs(heap) == { p \in DOMAIN heap : ~heap[p].alloc }

\* A user or machine as the caller builds it, before or with SetId(id); owner
\* is the manager it is handed to.
NewUser(id, g) == [alloc |-> TRUE, id |-> id, owner |-> g]

NewMachine(id, kind, g) ==
    [alloc |-> TRUE, id |-> id, owner |-> g, maxJobs |-> kind.maxJobs,
     disk |-> kind.disk, ram |-> kind.ram, jobs |-> << >>]

\* The heap holds at most cap users and machines together: room for n more.
HeapRoom(n, cap) ==
    Cardinality(UPtr \ FreeUPtrs(uobj)) + Cardinality(MPtr \ FreeMPtrs(mobj)) + n
        <= cap

\* ++ on a uint counter.  The guards of the actions keep the counters at or
\* below their bound, far from the 32-bit wrap.
Inc(x) == x + 1

\* -------------------------------------------------- AddUser / AddMachine
\* AddUser with the increment of the counter left out.
AddUserNoIncrement(m, last, p, pid) ==
    IF p = NULL
    THEN [map |-> m, last |-> last, id |-> pid, ret |-> 0]
    ELSE IF pid # 0
         THEN [map |-> MapPut(m, pid, p), last |-> last, id |-> pid, ret |-> pid]
         ELSE [map |-> MapPut(m, last, p), last |-> last, id |-> last, ret |-> last]

\* AddUser with std::map::insert for operator[]: an occupied key keeps its
\* entry.
AddUserInsertOnly(m, last, p, pid) ==
    IF p = NULL
    THEN [map |-> m, last |-> last, id |-> pid, ret |-> 0]
    ELSE IF pid # 0
         THEN [map |-> IF pid \in DOMAIN m THEN m ELSE MapPut(m, pid, p),
               last |-> last, id |-> pid, ret |-> pid]
         ELSE [map |-> MapPut(m, Inc(last), p), last |-> Inc(last),
               id |-> Inc(last), ret |-> Inc(last)]

\* m: the collection, last: the counter, p: the argument, pid: p->GetId().
\* The result carries the id the entity holds afterwards.
AddUser(m, last, p, pid) ==
    IF p = NULL
    THEN [map |-> m, last |-> last, id |-> pid, ret |-> 0]
    ELSE IF pid # 0
         THEN [map |-> MapPut(m, pid, p), last |-> last, id |-> pid, ret |-> pid]
         ELSE [map |-> MapPut(m, Inc(last), p), last |-> Inc(last),
               id |-> Inc(last), ret |-> Inc(last)]

AddMachine(m, last, p, pid) ==
    IF p = NULL
    THEN [map |-> m, last |-> last, id |-> pid, ret |-> 0]
    ELSE IF pid # 0
         THEN [map |-> MapPut(m, pid, p), last |-> last, id |-> pid, ret |-> pid]
         ELSE [map |-> MapPut(m, Inc(last), p), last |-> Inc(last),
               id |-> Inc(last), ret |-> Inc(last)]

\* ------------------------------------------------ RemoveUser / RemoveMachine
\* find_if over the map in key order: the first key whose value is p, or 0.
FindByPtr(m, p) ==
    IF \E k \in DOMAIN m : m[k] = p
    THEN Min({ k \in DOMAIN m : m[k] = p })
    ELSE 0

\* RemoveUser(id) that deletes the user and leaves the entry in the map.
RemoveUserByIdNoErase(m, heap, id) ==
    IF id \notin DOMAIN m
    THEN [map |-> m, heap |-> heap, ok |-> FALSE]
    ELSE [map |-> m, heap |-> [heap EXCEPT ![m[id]] = FreeUser], ok |-> TRUE]

RemoveUserById(m, heap, id) ==
    IF id \notin DOMAIN m
    THEN [map |-> m, heap |-> heap, ok |-> FALSE]
    ELSE [map |-> MapErase(m, id), heap |-> [heap EXCEPT ![m[id]] = FreeUser],
          ok |-> TRUE]

\* RemoveUser(user) without the test for end(): it deletes a user that is
\* not in the map as well.
RemoveUserByPtrNoEndTest(m, heap, p) ==
    IF p = NULL
    THEN [map |-> m, heap |-> heap, ok |-> FALSE]
    ELSE [map |-> IF FindByPtr(m, p) = 0 THEN m ELSE MapErase(m, FindByPtr(m, p)),
          heap |-> [heap EXCEPT ![p] = FreeUser], ok |-> TRUE]

RemoveUserByPtr(m, heap, p) ==
    IF FindByPtr(m, p) = 0
    THEN [map |-> m, heap |-> heap, ok |-> FALSE]
    ELSE [map |-> MapErase(m, FindByPtr(m, p)),
          heap |-> [heap EXCEPT ![p] = FreeUser], ok |-> TRUE]

RemoveMachineById(m, heap, id) ==
    IF id \notin DOMAIN m
    THEN [map |-> m, heap |-> heap, ok |-> FALSE]
    ELSE [map |-> MapErase(m, id), heap |-> [heap EXCEPT ![m[id]] = FreeMachine],
          ok |-> TRUE]

RemoveMachineByPtr(m, heap, p) ==
    IF FindByPtr(m, p) = 0
    THEN [map |-> m, heap |-> heap, ok |-> FALSE]
    ELSE [map |-> MapErase(m, FindByPtr(m, p)),
          heap |-> [heap EXCEPT ![p] = FreeMachine], ok |-> TRUE]

\* ---------------------------------------------------- GetUser / GetMachine
GetUser(m, id) == IF id \notin DOMAIN m THEN NULL ELSE m[id]

GetMachine(m, id) == IF id \notin DOMAIN m THEN NULL ELSE m[id]

\* ------------------------------------------------------------ Save / Load
\* User::Save and Machine::Save: each record carries the entity's own id.
UserSave(u) == << u.id >>

MachineSave(m) == << m.id, m.maxJobs, m.disk, m.ram >>

UserRecLen == Len(UserSave(FreeUser))

MachineRecLen == Len(MachineSave(FreeMachine))

RECURSIVE SaveUsers(_, _)
SaveUsers(ptrs, heap) ==
    IF ptrs = << >> THEN << >>
    ELSE UserSave(heap[Head(ptrs)]) \o SaveUsers(Tail(ptrs), heap)

RECURSIVE SaveMachines(_, _)
SaveMachines(ptrs, heap) ==
    IF ptrs = << >> THEN << >>
    ELSE MachineSave(heap[Head(ptrs)]) \o SaveMachines(Tail(ptrs), heap)

\* Save with the two counters written in the other order.
SaveCountersSwapped(lastU, lastM, um, mm, uheap, mheap) ==
    << lastM, lastU >>
    \o << Cardinality(DOMAIN um) >> \o SaveUsers(Values(um), uheap)
    \o << Cardinality(DOMAIN mm) >> \o SaveMachines(Values(mm), mheap)

\* The uint32 words Save writes, in order.
Save(lastU, lastM, um, mm, uheap, mheap) ==
    << lastU, lastM >>
    \o << Cardinality(DOMAIN um) >> \o SaveUsers(Values(um), uheap)
    \o << Cardinality(DOMAIN mm) >> \o SaveMachines(Values(mm), mheap)

\* gm->AddUser(User::Load(bb)), n times from position pos of buf.
RECURSIVE LoadUsers(_, _, _, _, _, _, _)
LoadUsers(g, m, last, heap, buf, pos, n) ==
    IF n = 0
    THEN [map |-> m, last |-> last, heap |-> heap, pos |-> pos]
    ELSE LET p == Min(FreeUPtrs(heap))
             r == AddUser(m, last, p, buf[pos])
         IN  LoadUsers(g, r.map, r.last,
                       [heap EXCEPT ![p] = NewUser(r.id, g)],
                       buf, pos + UserRecLen, n - 1)

RECURSIVE LoadMachines(_, _, _, _, _, _, _)
LoadMachines(g, m, last, heap, buf, pos, n) ==
    IF n = 0
    THEN [map |-> m, last |-> last, heap |-> heap, pos |-> pos]
    ELSE LET p == Min(FreeMPtrs(heap))
             r == AddMachine(m, last, p, buf[pos])
             k == [maxJobs |-> buf[pos + 1], disk |-> buf[pos + 2],
                   ram |-> buf[pos + 3]]
         IN  LoadMachines(g, r.map, r.last,
                          [heap EXCEPT ![p] = NewMachine(r.id, k, g)],
                          buf, pos + MachineRecLen, n - 1)

\* The manager Load builds from buf as manager g, and the counters it leaves.
Load(g, buf, uheap, mheap) ==
    LET lastU == buf[1]
        lastM == buf[2]
        us == LoadUsers(g, EmptyMap, lastU, uheap, buf, 4, buf[3])
        ms == LoadMachines(g, EmptyMap, lastM, mheap, buf, us.pos + 1, buf[us.pos])
    IN  [users |-> us.map, machines |-> ms.map, lastU |-> us.last,
         lastM |-> ms.last, uheap |-> us.heap, mheap |-> ms.heap]

\* What a manager held when it was saved: the counters, the user ids and the
\* machines (id -> kind).  A buffer handed to Load was written by Save from
\* such a manager, in this run of the program or an earlier one.
Snapshots ==
    { s \in [lastU : 0..MaxId, lastM : 0..MaxId, uids : SUBSET (1..MaxId),
             ms : UNION { [D -> MachineKinds] : D \in SUBSET (1..MaxId) }] :
        Cardinality(s.uids) + Cardinality(DOMAIN s.ms) <= MaxObjs }

NoSnap == [lastU |-> 0, lastM |-> 0, uids |-> {}, ms |-> << >>]

\* The buffer Save writes from the manager s describes.
SnapBuffer(s) ==
    Save(s.lastU, s.lastM,
         [k \in s.uids |-> k], [k \in DOMAIN s.ms |-> k],
         [k \in s.uids |-> NewUser(k, 0)],
         [k \in DOMAIN s.ms |-> NewMachine(k, s.ms[k], 0)])

\* What manager g holds now, as a snapshot.
SnapOf(g) ==
    [lastU |-> lastUserId, lastM |-> lastMachineId, uids |-> DOMAIN users[g],
     ms |-> [k \in DOMAIN machines[g] |->
               [maxJobs |-> mobj[machines[g][k]].maxJobs,
                disk |-> mobj[machines[g][k]].disk,
                ram |-> mobj[machines[g][k]].ram]]]

\* -------------------------------------------------------------- scheduler
\* A call the manager makes on a collaborator, with what it returned.
Call(name, target, arg, res) ==
    [call |-> name, target |-> target, arg |-> arg, res |-> res]

\* The score of a machine in the comparator of machineList.sort.
Score(m) == (m.maxJobs - Len(m.jobs)) + m.disk + m.ram

\* The comparator with >= for >.
BetterOrEqual(heap, p1, p2) == Score(heap[p1]) >= Score(heap[p2])

\* The comparator: machine p1 goes before machine p2.
Better(heap, p1, p2) == Score(heap[p1]) > Score(heap[p2])

\* machineList as std::transform fills it: the map's machines in key order.
MachineList(mm) == Values(mm)

\* std::list::sort is a stable sort: x goes before the first element it is
\* better than, behind every element it is not better than.
RECURSIVE InsertStable(_, _, _)
InsertStable(sorted, x, heap) ==
    IF sorted = << >> THEN << x >>
    ELSE IF Better(heap, x, Head(sorted)) THEN << x >> \o sorted
    ELSE << Head(sorted) >> \o InsertStable(Tail(sorted), x, heap)

RECURSIVE SortFrom(_, _, _)
SortFrom(sorted, rest, heap) ==
    IF rest = << >> THEN sorted
    ELSE SortFrom(InsertStable(sorted, Head(rest), heap), Tail(rest), heap)

ListSort(list, heap) == SortFrom(<< >>, list, heap)

\* Machine::AddJob(job): the machine decides on its own (accept), within its
\* capacity; an accepted job joins its jobs under the next job id.
MachineAddJob(m, job, accept) ==
    IF accept /\ Len(m.jobs) < m.maxJobs
    THEN [m |-> [m EXCEPT !.jobs = Append(@, job)], ok |-> TRUE]
    ELSE [m |-> m, ok |-> FALSE]

\* Machine::Update(diff): the jobs in fin finish during the tick and leave.
MachineUpdate(m, diff, fin) ==
    [m EXCEPT !.jobs = SelectSeq(@, LAMBDA j : j \notin fin)]

\* The offering loop without the return on acceptance.
RECURSIVE OfferLoopNoReturn(_, _, _, _)
OfferLoopNoReturn(list, heap, job, resp) ==
    IF list = << >> THEN [heap |-> heap, ok |-> FALSE, trace |-> << >>]
    ELSE LET p == Head(list)
             a == MachineAddJob(heap[p], job, resp[p])
             rest == OfferLoopNoReturn(Tail(list), [heap EXCEPT ![p] = a.m],
                                       job, resp)
         IN  [heap |-> rest.heap, ok |-> a.ok \/ rest.ok,
              trace |-> << Call("Machine::AddJob", p, job, a.ok) >> \o rest.trace]

\* The offering loop that gives up at the first rejection.
OfferLoopGiveUp(list, heap, job, resp) ==
    IF list = << >> THEN [heap |-> heap, ok |-> FALSE, trace |-> << >>]
    ELSE LET p == Head(list)
             a == MachineAddJob(heap[p], job, resp[p])
         IN  [heap |-> [heap EXCEPT ![p] = a.m], ok |-> a.ok,
              trace |-> << Call("Machine::AddJob", p, job, a.ok) >>]

\* The loop over the sorted list: offer the job until a machine accepts it.
RECURSIVE OfferLoop(_, _, _, _)
OfferLoop(list, heap, job, resp) ==
    IF list = << >> THEN [heap |-> heap, ok |-> FALSE, trace |-> << >>]
    ELSE LET p == Head(list)
             a == MachineAddJob(heap[p], job, resp[p])
         IN  IF a.ok
             THEN [heap |-> [heap EXCEPT ![p] = a.m], ok |-> TRUE,
                   trace |-> << Call("Machine::AddJob", p, job, TRUE) >>]
             ELSE LET rest == OfferLoop(Tail(list), heap, job, resp)
                  IN  [heap |-> rest.heap, ok |-> rest.ok,
                       trace |-> << Call("Machine::AddJob", p, job, FALSE) >>
                                 \o rest.trace]

\* mm: _machines, heap: the machines, resp[p]: what machine p answers.
AddJob(mm, heap, job, resp) ==
    IF job = NULL
    THEN [heap |-> heap, ok |-> FALSE, trace |-> << >>]
    ELSE OfferLoop(ListSort(MachineList(mm), heap), heap, job, resp)

\* AddJobByUser that schedules whatever CanCreateJob answers.
AddJobByUserNoGate(mm, heap, user, job, can, resp) ==
    IF user = NULL \/ job = NULL
    THEN [heap |-> heap, ok |-> FALSE, trace |-> << >>]
    ELSE LET c == << Call("User::CanCreateJob", user, job, can) >>
             r == AddJob(mm, heap, job, resp)
         IN  IF ~r.ok
             THEN [heap |-> r.heap, ok |-> FALSE, trace |-> c \o r.trace]
             ELSE [heap |-> r.heap, ok |-> TRUE,
                   trace |-> c \o r.trace
                             \o << Call("User::CreatedJob", user, job, TRUE) >>]

\* AddJobByUser that notifies the user before it schedules.
AddJobByUserNotifyFirst(mm, heap, user, job, can, resp) ==
    IF user = NULL \/ job = NULL
    THEN [heap |-> heap, ok |-> FALSE, trace |-> << >>]
    ELSE LET c == << Call("User::CanCreateJob", user, job, can) >>
             n == << Call("User::CreatedJob", user, job, TRUE) >>
         IN  IF ~can
             THEN [heap |-> heap, ok |-> FALSE, trace |-> c]
             ELSE LET r == AddJob(mm, heap, job, resp)
                  IN  [heap |-> r.heap, ok |-> r.ok, trace |-> c \o n \o r.trace]

\* AddJobByUser that looks at job only after it has asked the user.
AddJobByUserLateNullCheck(mm, heap, user, job, can, resp) ==
    IF user = NULL
    THEN [heap |-> heap, ok |-> FALSE, trace |-> << >>]
    ELSE LET c == << Call("User::CanCreateJob", user, job, can) >>
         IN  IF ~can \/ job = NULL
             THEN [heap |-> heap, ok |-> FALSE, trace |-> c]
             ELSE LET r == AddJob(mm, heap, job, resp)
                  IN  IF ~r.ok
                      THEN [heap |-> r.heap, ok |-> FALSE, trace |-> c \o r.trace]
                      ELSE [heap |-> r.heap, ok |-> TRUE,
                            trace |-> c \o r.trace
                                      \o << Call("User::CreatedJob", user, job,
                                                 TRUE) >>]

\* can: what user->CanCreateJob(job) answers.
AddJobByUser(mm, heap, user, job, can, resp) ==
    IF user = NULL
    THEN [heap |-> heap, ok |-> FALSE, trace |-> << >>]
    ELSE IF job = NULL
    THEN [heap |-> heap, ok |-> FALSE, trace |-> << >>]
    ELSE LET c == << Call("User::CanCreateJob", user, job, can) >>
         IN  IF ~can
             THEN [heap |-> heap, ok |-> FALSE, trace |-> c]
             ELSE LET r == AddJob(mm, heap, job, resp)
                  IN  IF ~r.ok
                      THEN [heap |-> r.heap, ok |-> FALSE, trace |-> c \o r.trace]
                      ELSE [heap |-> r.heap, ok |-> TRUE,
                            trace |-> c \o r.trace
                                      \o << Call("User::CreatedJob", user, job,
                                                 TRUE) >>]

\* Update that leaves out the first machine of the map.
UpdateSkipFirst(mm, heap, diff, fin) ==
    LET ps == IF Values(mm) = << >> THEN << >> ELSE Tail(Values(mm))
    IN  [heap |-> [p \in DOMAIN heap |->
                     IF \E i \in 1..Len(ps) : ps[i] = p
                     THEN MachineUpdate(heap[p], diff, fin) ELSE heap[p]],
         trace |-> [i \in 1..Len(ps) |-> Call("Machine::Update", ps[i], diff, TRUE)]]

\* Update(diff): Machine::Update(diff) on every machine of the map, in key order.
Update(mm, heap, diff, fin) ==
    [heap |-> [p \in DOMAIN heap |->
                 IF p \in Range(mm) THEN MachineUpdate(heap[p], diff, fin)
                 ELSE heap[p]],
     trace |-> [i \in 1..Len(Values(mm)) |->
                  Call("Machine::Update", Values(mm)[i], diff, TRUE)]]

\* -------------------------------------------------------------------- Run
\* The loop condition with the flag negated once too often.
LoopTestNegated(st) == IF st THEN "body" ELSE "done"

\* while (!_stop): into the body, or out of the loop and of Run().
LoopTest(st) == IF st THEN "done" ELSE "body"

\* --------------------------------------------------------- ApplyPredicate
\* A predicate is the set of the objects it is true of.
\* ApplyPredicate<T> for any other T: the primary template.
ApplyPredicateOther(pred) == << >>

\* The jobs of the machines in list, machine by machine in GetJobs() order,
\* that satisfy the predicate.
RECURSIVE JobsOf(_, _, _)
JobsOf(list, heap, pred) ==
    IF list = << >> THEN << >>
    ELSE SelectSeq(heap[Head(list)].jobs, LAMBDA j : j \in pred)
         \o JobsOf(Tail(list), heap, pred)

ApplyPredicateJob(mm, heap, pred) == JobsOf(Values(mm), heap, pred)

ApplyPredicateUser(um, pred) == SelectSeq(Values(um), LAMBDA u : u \in pred)

ApplyPredicateMachine(mm, pred) == SelectSeq(Values(mm), LAMBDA m : m \in pred)

\* ------------------------------------------------------------------- state
NoEv == [op |-> "none", mgr |-> 0, ptr |-> NULL, arg |-> 0, ret |-> 0,
         ok |-> FALSE, trace |-> << >>, snap |-> NoSnap, pred |-> {}]

Ev(op, g, p, a, r, ok, tr) ==
    [op |-> op, mgr |-> g, ptr |-> p, arg |-> a, ret |-> r, ok |-> ok,
     trace |-> tr, snap |-> NoSnap, pred |-> {}]

\* lateUpdates, lateSleeps: the Update calls and the sleeps Run() has made
\* since _stop last became true; held: _stop has been true ever since Run()
\* was called.
NoObs == [lateUpdates |-> 0, lateSleeps |-> 0, held |-> FALSE]

Init ==
    /\ lastUserId = 0
    /\ lastMachineId = 0
    /\ mgrs = {1}
    /\ users = [g \in Mgr |-> EmptyMap]
    /\ machines = [g \in Mgr |-> EmptyMap]
    /\ uobj = [p \in UPtr |-> FreeUser]
    /\ mobj = [p \in MPtr |-> FreeMachine]
    /\ ev = NoEv
    /\ stop = FALSE
    /\ runpc = "idle"
    /\ obs = NoObs

\* ----------------------------------------------------------------- actions
\* new GridManager()
NewManager ==
    /\ mgrs # Mgr
    /\ mgrs' = mgrs \cup {Min(Mgr \ mgrs)}
    /\ ev' = Ev("NewManager", Min(Mgr \ mgrs), NULL, 0, 0, TRUE, << >>)
    /\ UNCHANGED << stop, runpc, obs,
                    lastUserId, lastMachineId, users, machines, uobj, mobj >>

\* ~GridManager(): deletes every mapped user and machine.
Destroy(g) ==
    /\ mgrs' = mgrs \ {g}
    /\ uobj' = [p \in UPtr |->
                  IF p \in Range(users[g]) THEN FreeUser
                  ELSE IF uobj[p].owner = g THEN [uobj[p] EXCEPT !.owner = 0]
                  ELSE uobj[p]]
    /\ mobj' = [p \in MPtr |->
                  IF p \in Range(machines[g]) THEN FreeMachine
                  ELSE IF mobj[p].owner = g THEN [mobj[p] EXCEPT !.owner = 0]
                  ELSE mobj[p]]
    /\ users' = [users EXCEPT ![g] = EmptyMap]
    /\ machines' = [machines EXCEPT ![g] = EmptyMap]
    /\ ev' = Ev("Destroy", g, NULL, 0, 0, TRUE, << >>)
    /\ UNCHANGED << stop, runpc, obs, lastUserId, lastMachineId >>

\* gm.AddUser(NULL)
DoAddUserNull(g) ==
    LET r == AddUser(users[g], lastUserId, NULL, 0)
    IN  /\ users' = [users EXCEPT ![g] = r.map]
        /\ lastUserId' = r.last
        /\ ev' = Ev("AddUser", g, NULL, 0, r.ret, r.ret # 0, << >>)
        /\ UNCHANGED << stop, runpc, obs,
                        lastMachineId, mgrs, machines, uobj, mobj >>

\* gm.AddUser(new User), the user's id 0 or preset by the caller (pid).
\* room: the heap has room for the user; maxid: the bound on the counter.
DoAddUser(g, room, pids, maxid) ==
    \E pid \in pids :
        /\ room
        /\ pid = 0 => lastUserId < maxid
        /\ LET p == Min(FreeUPtrs(uobj))
               r == AddUser(users[g], lastUserId, p, pid)
           IN  /\ users' = [users EXCEPT ![g] = r.map]
               /\ lastUserId' = r.last
               /\ uobj' = [uobj EXCEPT ![p] = NewUser(r.id, g)]
               /\ ev' = Ev("AddUser", g, p, pid, r.ret, r.ret # 0, << >>)
        /\ UNCHANGED << stop, runpc, obs, lastMachineId, mgrs, machines, mobj >>

\* gm.AddMachine(NULL)
DoAddMachineNull(g) ==
    LET r == AddMachine(machines[g], lastMachineId, NULL, 0)
    IN  /\ machines' = [machines EXCEPT ![g] = r.map]
        /\ lastMachineId' = r.last
        /\ ev' = Ev("AddMachine", g, NULL, 0, r.ret, r.ret # 0, << >>)
        /\ UNCHANGED << stop, runpc, obs, lastUserId, mgrs, users, uobj, mobj >>

\* gm.AddMachine(new Machine) of one of the kinds.
DoAddMachine(g, room, pids, maxid, kinds) ==
    \E pid \in pids, kind \in kinds :
        /\ room
        /\ pid = 0 => lastMachineId < maxid
        /\ LET p == Min(FreeMPtrs(mobj))
               r == AddMachine(machines[g], lastMachineId, p, pid)
           IN  /\ machines' = [machines EXCEPT ![g] = r.map]
               /\ lastMachineId' = r.last
               /\ mobj' = [mobj EXCEPT ![p] = NewMachine(r.id, kind, g)]
               /\ ev' = Ev("AddMachine", g, p, pid, r.ret, r.ret # 0, << >>)
        /\ UNCHANGED << stop, runpc, obs, lastUserId, mgrs, users, uobj >>

\* gm.RemoveUser(id)
DoRemoveUserById(g, ids) ==
    \E id \in ids :
        LET r == RemoveUserById(users[g], uobj, id)
        IN  /\ users' = [users EXCEPT ![g] = r.map]
            /\ uobj' = r.heap
            /\ ev' = Ev("RemoveUser", g, NULL, id, 0, r.ok, << >>)
            /\ UNCHANGED << stop, runpc, obs,
                            lastUserId, lastMachineId, mgrs, machines, mobj >>

\* gm.RemoveUser(user): a pointer to a user that exists, or NULL.
DoRemoveUserByPtr(g) ==
    \E p \in (UPtr \ FreeUPtrs(uobj)) \cup {NULL} :
        LET r == RemoveUserByPtr(users[g], uobj, p)
        IN  /\ users' = [users EXCEPT ![g] = r.map]
            /\ uobj' = r.heap
            /\ ev' = Ev("RemoveUserPtr", g, p, 0, 0, r.ok, << >>)
            /\ UNCHANGED << stop, runpc, obs,
                            lastUserId, lastMachineId, mgrs, machines, mobj >>

\* gm.RemoveMachine(id)
DoRemoveMachineById(g, ids) ==
    \E id \in ids :
        LET r == RemoveMachineById(machines[g], mobj, id)
        IN  /\ machines' = [machines EXCEPT ![g] = r.map]
            /\ mobj' = r.heap
            /\ ev' = Ev("RemoveMachine", g, NULL, id, 0, r.ok, << >>)
            /\ UNCHANGED << stop, runpc, obs,
                            lastUserId, lastMachineId, mgrs, users, uobj >>

\* gm.RemoveMachine(machine): a pointer to a machine that exists, or NULL.
DoRemoveMachineByPtr(g) ==
    \E p \in (MPtr \ FreeMPtrs(mobj)) \cup {NULL} :
        LET r == RemoveMachineByPtr(machines[g], mobj, p)
        IN  /\ machines' = [machines EXCEPT ![g] = r.map]
            /\ mobj' = r.heap
            /\ ev' = Ev("RemoveMachinePtr", g, p, 0, 0, r.ok, << >>)
            /\ UNCHANGED << stop, runpc, obs,
                            lastUserId, lastMachineId, mgrs, users, uobj >>

\* gm.GetUser(id): const.
DoGetUser(g, ids) ==
    \E id \in ids :
        /\ ev' = Ev("GetUser", g, NULL, id, GetUser(users[g], id),
                    GetUser(users[g], id) # NULL, << >>)
        /\ UNCHANGED << stop, runpc, obs,
                        lastUserId, lastMachineId, mgrs, users, machines, uobj,
                        mobj >>

\* gm.GetMachine(id): const.
DoGetMachine(g, ids) ==
    \E id \in ids :
        /\ ev' = Ev("GetMachine", g, NULL, id, GetMachine(machines[g], id),
                    GetMachine(machines[g], id) # NULL, << >>)
        /\ UNCHANGED << stop, runpc, obs,
                        lastUserId, lastMachineId, mgrs, users, machines, uobj,
                        mobj >>

\* gm.Save(bb) into a fresh buffer: const, the words written are the result.
DoSave(g) ==
    /\ ev' = [Ev("Save", g, NULL, 0, 0, TRUE,
                 Save(lastUserId, lastMachineId, users[g], machines[g], uobj, mobj))
              EXCEPT !.snap = SnapOf(g)]
    /\ UNCHANGED << stop, runpc, obs,
                    lastUserId, lastMachineId, mgrs, users, machines, uobj, mobj >>

\* GridManager::Load(bb) on a buffer Save wrote from a manager like s.
DoLoad(cap) ==
    \E s \in Snapshots :
        /\ mgrs # Mgr
        /\ HeapRoom(Cardinality(s.uids) + Cardinality(DOMAIN s.ms), cap)
        /\ LET g == Min(Mgr \ mgrs)
               r == Load(g, SnapBuffer(s), uobj, mobj)
           IN  /\ mgrs' = mgrs \cup {g}
               /\ lastUserId' = r.lastU
               /\ lastMachineId' = r.lastM
               /\ users' = [users EXCEPT ![g] = r.users]
               /\ machines' = [machines EXCEPT ![g] = r.machines]
               /\ uobj' = r.uheap
               /\ mobj' = r.mheap
               /\ ev' = [Ev("Load", g, NULL, 0, 0, TRUE, << >>) EXCEPT !.snap = s]
        /\ UNCHANGED runvars

\* gm.AddJob(job): a job of the caller or NULL; resp: the machines' answers.
DoAddJob(g) ==
    \E job \in Job \cup {NULL}, resp \in [MPtr -> BOOLEAN] :
        LET r == AddJob(machines[g], mobj, job, resp)
        IN  /\ mobj' = r.heap
            /\ ev' = Ev("AddJob", g, NULL, job, 0, r.ok, r.trace)
            /\ UNCHANGED << stop, runpc, obs,
                            lastUserId, lastMachineId, mgrs, users, machines, uobj >>

\* gm.AddJobByUser(user, job): a user that exists or NULL.
DoAddJobByUser(g) ==
    \E user \in (UPtr \ FreeUPtrs(uobj)) \cup {NULL}, job \in Job \cup {NULL},
       can \in BOOLEAN, resp \in [MPtr -> BOOLEAN] :
        LET r == AddJobByUser(machines[g], mobj, user, job, can, resp)
        IN  /\ mobj' = r.heap
            /\ ev' = Ev("AddJobByUser", g, user, job, 0, r.ok, r.trace)
            /\ UNCHANGED << stop, runpc, obs,
                            lastUserId, lastMachineId, mgrs, users, machines, uobj >>

\* gm.Update(diff)
DoUpdate(g) ==
    \E diff \in 1..MaxDiff, fin \in SUBSET Job :
        LET r == Update(machines[g], mobj, diff, fin)
        IN  /\ mobj' = r.heap
            /\ ev' = Ev("Update", g, NULL, diff, 0, TRUE, r.trace)
            /\ UNCHANGED << stop, runpc, obs,
                            lastUserId, lastMachineId, mgrs, users, machines, uobj >>

\* gm.ApplyPredicate<Job>(pred): const, the vector returned is the result.
DoApplyPredicateJob(g) ==
    \E pred \in SUBSET Job :
        /\ ev' = [Ev("ApplyPredicate<Job>", g, NULL, 0, 0, TRUE,
                     ApplyPredicateJob(machines[g], mobj, pred))
                  EXCEPT !.pred = pred]
        /\ UNCHANGED << stop, runpc, obs,
                        lastUserId, lastMachineId, mgrs, users, machines, uobj,
                        mobj >>

\* gm.ApplyPredicate<User>(pred)
DoApplyPredicateUser(g) ==
    \E pred \in SUBSET UPtr :
        /\ ev' = [Ev("ApplyPredicate<User>", g, NULL, 0, 0, TRUE,
                     ApplyPredicateUser(users[g], pred))
                  EXCEPT !.pred = pred]
        /\ UNCHANGED << stop, runpc, obs,
                        lastUserId, lastMachineId, mgrs, users, machines, uobj,
                        mobj >>

\* gm.ApplyPredicate<Machine>(pred)
DoApplyPredicateMachine(g) ==
    \E pred \in SUBSET MPtr :
        /\ ev' = [Ev("ApplyPredicate<Machine>", g, NULL, 0, 0, TRUE,
                     ApplyPredicateMachine(machines[g], pred))
                  EXCEPT !.pred = pred]
        /\ UNCHANGED << stop, runpc, obs,
                        lastUserId, lastMachineId, mgrs, users, machines, uobj,
                        mobj >>

\* gm.ApplyPredicate<T>(pred) for a T that is not User, Machine or Job.
DoApplyPredicateOther(g) ==
    \E pred \in SUBSET Job :
        /\ ev' = [Ev("ApplyPredicate<Other>", g, NULL, 0, 0, TRUE,
                     ApplyPredicateOther(pred))
                  EXCEPT !.pred = pred]
        /\ UNCHANGED << stop, runpc, obs,
                        lastUserId, lastMachineId, mgrs, users, machines, uobj,
                        mobj >>

\* gm.Run() is called: the first time sample, then the loop condition.
RunCall(g) ==
    /\ runpc \in {"idle", "done"}
    /\ runpc' = "test"
    /\ obs' = [obs EXCEPT !.held = stop]
    /\ ev' = Ev("Run", g, NULL, 0, 0, TRUE, << >>)
    /\ UNCHANGED << lastUserId, lastMachineId, mgrs, users, machines, uobj, mobj,
                    stop >>

\* The loop condition is evaluated.
RunTest(g) ==
    /\ runpc = "test"
    /\ runpc' = LoopTest(stop)
    /\ UNCHANGED << lastUserId, lastMachineId, mgrs, users, machines, uobj, mobj,
                    ev, stop, obs >>

\* The body up to the sleep: the time samples, diff between them, Update(diff).
RunTick(g) ==
    /\ runpc = "body"
    /\ \E diff \in 1..MaxDiff, fin \in SUBSET Job :
          LET r == Update(machines[g], mobj, diff, fin)
          IN  /\ mobj' = r.heap
              /\ ev' = Ev("Update", g, NULL, diff, 0, TRUE, r.trace)
    /\ runpc' = "sleep"
    /\ obs' = [obs EXCEPT !.lateUpdates = IF stop THEN @ + 1 ELSE @]
    /\ UNCHANGED << lastUserId, lastMachineId, mgrs, users, machines, uobj, stop >>

\* sleep_for(500 ms), then back to the loop condition.
RunSleep(g) ==
    /\ runpc = "sleep"
    /\ runpc' = "test"
    /\ obs' = [obs EXCEPT !.lateSleeps = IF stop THEN @ + 1 ELSE @]
    /\ UNCHANGED << lastUserId, lastMachineId, mgrs, users, machines, uobj, mobj,
                    ev, stop >>

\* The thread inside Run() takes its next step.
RunStep(g) == RunTest(g) \/ RunTick(g) \/ RunSleep(g)

\* Somebody sets the stop flag of the manager.
SetStop(b) ==
    /\ stop' = b
    /\ obs' = IF b = stop THEN obs
              ELSE IF b THEN [obs EXCEPT !.lateUpdates = 0, !.lateSleeps = 0]
              ELSE NoObs
    /\ UNCHANGED << lastUserId, lastMachineId, mgrs, users, machines, uobj, mobj,
                    ev, runpc >>

\* ----------------------------------------------------------- specifications
\* Registration and removal on the managers of one process, without Load.
NextAdd ==
    \/ NewManager
    \/ \E g \in mgrs : Destroy(g)
    \/ \E g \in mgrs : DoAddUserNull(g)
    \/ \E g \in mgrs : DoAddUser(g, HeapRoom(1, MaxObjs), 0..MaxId, MaxId)
    \/ \E g \in mgrs : DoAddMachineNull(g)
    \/ \E g \in mgrs : DoAddMachine(g, HeapRoom(1, MaxObjs), 0..MaxId, MaxId,
                                    MachineKinds)
    \/ \E g \in mgrs : DoRemoveUserById(g, 0..MaxId)
    \/ \E g \in mgrs : DoRemoveUserByPtr(g)
    \/ \E g \in mgrs : DoRemoveMachineById(g, 0..MaxId)
    \/ \E g \in mgrs : DoRemoveMachineByPtr(g)
    \/ \E g \in mgrs : DoGetUser(g, 0..MaxId)
    \/ \E g \in mgrs : DoGetMachine(g, 0..MaxId)

SpecAdd == Init /\ [][NextAdd]_vars

\* The registry with Save and Load.
NextRegistry ==
    \/ \E g \in mgrs : Destroy(g)
    \/ \E g \in mgrs : DoAddUser(g, HeapRoom(1, MaxObjs), 0..MaxId, MaxId)
    \/ \E g \in mgrs : DoAddMachine(g, HeapRoom(1, MaxObjs), 0..MaxId, MaxId,
                                    MachineKinds)
    \/ \E g \in mgrs : DoRemoveUserById(g, 0..MaxId)
    \/ \E g \in mgrs : DoRemoveMachineById(g, 0..MaxId)
    \/ \E g \in mgrs : DoSave(g)
    \/ DoLoad(MaxObjs)

SpecRegistry == Init /\ [][NextRegistry]_vars

\* One manager with its machines and users: submissions, ticks and removals.
NextSched ==
    \/ \E g \in mgrs :
          DoAddUser(g, Cardinality(UPtr \ FreeUPtrs(uobj)) < SchedUsers, {0},
                    SchedUsers)
    \/ \E g \in mgrs :
          DoAddMachine(g, Cardinality(MPtr \ FreeMPtrs(mobj)) < SchedMachines, {0},
                       SchedMachines, MachineKinds)
    \/ \E g \in mgrs : DoRemoveMachineById(g, 1..SchedMachines)
    \/ \E g \in mgrs : DoAddJob(g)
    \/ \E g \in mgrs : DoAddJobByUser(g)
    \/ \E g \in mgrs : DoUpdate(g)
    \/ \E g \in mgrs : DoApplyPredicateJob(g)
    \/ \E g \in mgrs : DoApplyPredicateUser(g)
    \/ \E g \in mgrs : DoApplyPredicateMachine(g)
    \/ \E g \in mgrs : DoApplyPredicateOther(g)
    \/ \E g \in mgrs : DoAddUserNull(g)
    \/ \E g \in mgrs : DoAddMachineNull(g)

SpecSched == Init /\ [][NextSched]_vars

\* The tick loop of one manager, its stop flag, and machines with jobs.  The
\* thread inside Run() keeps running: Update and the sleep return.
NextRun ==
    \/ \E g \in mgrs :
          DoAddMachine(g, Cardinality(MPtr \ FreeMPtrs(mobj)) < SchedMachines, {0},
                       SchedMachines, MachineKinds)
    \/ \E g \in mgrs : DoAddJob(g)
    \/ \E g \in mgrs : RunCall(g)
    \/ \E g \in mgrs : RunTest(g)
    \/ \E g \in mgrs : RunTick(g)
    \/ \E g \in mgrs : RunSleep(g)
    \/ \E b \in BOOLEAN : SetStop(b)

SpecRun == Init /\ [][NextRun]_vars /\ WF_vars(\E g \in mgrs : RunStep(g))

\* ------------------------------------------------------------------ claims
ZeroAddUser(e) == e.op = "AddUser" /\ e.ptr # NULL /\ e.arg = 0

ZeroAddMachine(e) == e.op = "AddMachine" /\ e.ptr # NULL /\ e.arg = 0

\* The entities handed to manager g and not deleted since.
LiveUsers(g) == { p \in UPtr : uobj[p].alloc /\ uobj[p].owner = g }

LiveMachines(g) == { p \in MPtr : mobj[p].alloc /\ mobj[p].owner = g }

C2_CountersCoverKeys ==
    \A g \in mgrs :
        /\ \A k \in DOMAIN users[g] : k <= lastUserId
        /\ \A k \in DOMAIN machines[g] : k <= lastMachineId

\* C3: 0 is no key; no two live entities of a collection carry the same id;
\* the id a zero-id Add returns is carried by no other live entity of its
\* collection.
C3_IdsUniqueNotReused ==
    /\ \A g \in mgrs : 0 \notin DOMAIN users[g] /\ 0 \notin DOMAIN machines[g]
    /\ \A g \in mgrs : \A p, q \in LiveUsers(g) :
           p # q => uobj[p].id # uobj[q].id
    /\ \A g \in mgrs : \A p, q \in LiveMachines(g) :
           p # q => mobj[p].id # mobj[q].id
    /\ ZeroAddUser(ev) =>
           \A q \in LiveUsers(ev.mgr) \ {ev.ptr} : uobj[q].id # ev.ret
    /\ ZeroAddMachine(ev) =>
           \A q \in LiveMachines(ev.mgr) \ {ev.ptr} : mobj[q].id # ev.ret

\* C4: the buffer Save writes from a manager is the buffer of the manager's
\* snapshot, and Load on the buffer of a snapshot yields a manager with the
\* snapshot's user ids, machine ids and entity counts, and leaves the
\* counters the snapshot holds.
C4_LoadSaveFidelity ==
    /\ ev.op = "Save" =>
           /\ ev.snap \in Snapshots
           /\ ev.snap = SnapOf(ev.mgr)
           /\ ev.trace = SnapBuffer(ev.snap)
    /\ ev.op = "Load" =>
           /\ DOMAIN users[ev.mgr] = ev.snap.uids
           /\ DOMAIN machines[ev.mgr] = DOMAIN ev.snap.ms
           /\ Cardinality(Range(users[ev.mgr])) = Cardinality(ev.snap.uids)
           /\ Cardinality(Range(machines[ev.mgr])) = Cardinality(DOMAIN ev.snap.ms)
           /\ lastUserId = ev.snap.lastU
           /\ lastMachineId = ev.snap.lastM

\* A Load of a buffer that holds a user and a machine, with different counters.
C4_Witness ==
    /\ ev.op = "Load"
    /\ DOMAIN users[ev.mgr] # {}
    /\ DOMAIN machines[ev.mgr] # {}
    /\ lastUserId # lastMachineId

\* -- scheduling claims: helpers
IsSubmit(e) == e.op \in {"AddJob", "AddJobByUser"}

Offers(e) == SelectSeq(e.trace, LAMBDA c : c.call = "Machine::AddJob")

CallsOf(e, name) == SelectSeq(e.trace, LAMBDA c : c.call = name)

TimesOffered(e, p) == Len(SelectSeq(Offers(e), LAMBDA c : c.target = p))

\* The ranking as the specification words it, on the machines of heap.
RankingScore(m) == (m.maxJobs - Len(m.jobs)) + m.disk + m.ram

RankedBefore(heap, p, q) ==
    \/ RankingScore(heap[p]) > RankingScore(heap[q])
    \/ /\ RankingScore(heap[p]) = RankingScore(heap[q])
       /\ heap[p].id < heap[q].id

\* C5: the machines a submission offers the job to are machines of the
\* manager, and each offer goes to a machine that ranks before the machine of
\* every later offer: higher score (maxJobs - currentJobs) + disk + RAM as it
\* was when the call began, and ascending machine id among equal scores.
C5_RankingOrder ==
    [][ IsSubmit(ev') =>
          LET o == Offers(ev')
          IN  /\ \A i \in 1..Len(o) : o[i].target \in Range(machines[ev'.mgr])
              /\ \A i, j \in 1..Len(o) :
                    i < j => RankedBefore(mobj, o[i].target, o[j].target) ]_vars

\* Three machines registered in the order M1, M2, M3 with scores 10, 10, 5 all
\* reject the job: they were offered it in the order M1, M2, M3.
C5_Witness ==
    /\ ev.op = "AddJob" /\ ~ev.ok /\ Len(Offers(ev)) = 3
    /\ \A i \in 1..3 : mobj[Offers(ev)[i].target].id = i
    /\ RankingScore(mobj[Offers(ev)[1].target]) = 10
    /\ RankingScore(mobj[Offers(ev)[2].target]) = 10
    /\ RankingScore(mobj[Offers(ev)[3].target]) = 5

\* C6: a submission that returns true ended with the one accepting offer; the
\* machines ranked before the accepting machine were each offered the job
\* exactly once and rejected it, no machine ranked after it was offered the
\* job, the accepting machine gained the job and no other machine changed.
C6_FirstAcceptorWins ==
    [][ (IsSubmit(ev') /\ ev'.ok) =>
          LET o == Offers(ev')
              n == Len(o)
              w == o[n].target
          IN  /\ n >= 1
              /\ o[n].res
              /\ \A i \in 1..(n - 1) : ~o[i].res
              /\ \A p \in Range(machines[ev'.mgr]) :
                    TimesOffered(ev', p) =
                        (IF p = w \/ RankedBefore(mobj, p, w) THEN 1 ELSE 0)
              /\ mobj'[w] = [mobj[w] EXCEPT !.jobs = Append(@, ev'.arg)]
              /\ \A p \in MPtr \ {w} : mobj'[p] = mobj[p] ]_vars

\* Of three machines the best one rejected the job, the second accepted it
\* and the third was never offered it.
C6_Witness ==
    /\ ev.op = "AddJob" /\ ev.ok /\ Len(Offers(ev)) = 2
    /\ Cardinality(DOMAIN machines[ev.mgr]) = 3
    /\ ~Offers(ev)[1].res
    /\ ev.arg \in Range(mobj[Offers(ev)[2].target].jobs)

\* C7: when CanCreateJob answers false, AddJobByUser returns false, offers
\* the job to no machine, does not call CreatedJob and changes nothing.
C7_AuthorizationGate ==
    [][ ( /\ ev'.op = "AddJobByUser"
          /\ \E i \in 1..Len(ev'.trace) :
                ev'.trace[i].call = "User::CanCreateJob" /\ ~ev'.trace[i].res )
        => /\ ~ev'.ok
           /\ Offers(ev') = << >>
           /\ CallsOf(ev', "User::CreatedJob") = << >>
           /\ UNCHANGED << lastUserId, lastMachineId, mgrs, users, machines,
                           uobj, mobj >> ]_vars

\* The user was refused while a machine with free capacity was registered.
C7_Witness ==
    /\ ev.op = "AddJobByUser" /\ ev.ptr # NULL /\ ev.arg # NULL
    /\ ev.trace = << Call("User::CanCreateJob", ev.ptr, ev.arg, FALSE) >>
    /\ \E p \in Range(machines[ev.mgr]) : Len(mobj[p].jobs) < mobj[p].maxJobs

\* C8: AddJobByUser calls CreatedJob once when it returns true and never when
\* it returns false; the call is the last one, after the accepting offer, and
\* every offer to a machine comes after the call of CanCreateJob.
C8_NotifyAfterSuccess ==
    ev.op = "AddJobByUser" =>
        LET tr == ev.trace
            n == Len(tr)
        IN  /\ Len(CallsOf(ev, "User::CreatedJob")) = (IF ev.ok THEN 1 ELSE 0)
            /\ \A k \in 1..n :
                  tr[k].call = "User::CreatedJob" =>
                      /\ k = n
                      /\ tr[k].target = ev.ptr /\ tr[k].arg = ev.arg
                      /\ k > 1 /\ tr[k - 1].call = "Machine::AddJob"
                      /\ tr[k - 1].res
            /\ \A k \in 1..n :
                  tr[k].call = "Machine::AddJob" =>
                      \E i \in 1..(k - 1) :
                          tr[i].call = "User::CanCreateJob" /\ tr[i].res

\* An authorized job went to the second machine offered, then the user was told.
C8_Witness ==
    /\ ev.op = "AddJobByUser" /\ ev.ok /\ Len(ev.trace) = 4
    /\ ev.trace[4] = Call("User::CreatedJob", ev.ptr, ev.arg, TRUE)

\* C9: in every state each job is among the jobs of at most one machine.
C9_JobOnOneMachine ==
    \A j \in Job :
        Cardinality({ p \in MPtr : mobj[p].alloc /\ j \in Range(mobj[p].jobs) }) <= 1

\* C10: Update(d) calls Machine::Update(d) once on every machine of the
\* manager, in ascending order of machine id, with the d it was given, and
\* changes neither the collections nor the id counters.
C10_UpdateFanOut ==
    [][ ev'.op = "Update" =>
          LET tr == ev'.trace
              mm == machines[ev'.mgr]
          IN  /\ Len(tr) = Cardinality(DOMAIN mm)
              /\ \A i \in 1..Len(tr) :
                    /\ tr[i].call = "Machine::Update"
                    /\ tr[i].arg = ev'.arg
                    /\ tr[i].target \in Range(mm)
              /\ \A p \in Range(mm) :
                    Len(SelectSeq(tr, LAMBDA c : c.target = p)) = 1
              /\ \A i, j \in 1..Len(tr) :
                    i < j => mobj[tr[i].target].id < mobj[tr[j].target].id
              /\ UNCHANGED << lastUserId, lastMachineId, mgrs, users, machines,
                              uobj >> ]_vars

\* A tick of the largest delta reached three machines, one of them holding a job.
C10_Witness ==
    /\ ev.op = "Update" /\ Len(ev.trace) = 3 /\ ev.arg = MaxDiff
    /\ \E p \in Range(machines[ev.mgr]) : mobj[p].jobs # << >>

\* C11: RemoveUser(id) / RemoveMachine(id) of a registered id returns true and
\* leaves the id absent; the same call repeated at once returns false; an
\* absent id stays absent (Get* returns NULL) until an Add* call of that
\* manager returns that id.
C11_RemovalIdempotence ==
    [][ /\ (ev'.op = "RemoveUser" /\ ev'.arg \in DOMAIN users[ev'.mgr])
              => (ev'.ok /\ GetUser(users'[ev'.mgr], ev'.arg) = NULL)
        /\ (ev'.op = "RemoveMachine" /\ ev'.arg \in DOMAIN machines[ev'.mgr])
              => (ev'.ok /\ GetMachine(machines'[ev'.mgr], ev'.arg) = NULL)
        /\ ( /\ ev.op \in {"RemoveUser", "RemoveMachine"} /\ ev.ok
             /\ ev'.op = ev.op /\ ev'.mgr = ev.mgr /\ ev'.arg = ev.arg )
              => ~ev'.ok
        /\ \A g \in mgrs \cap mgrs', id \in 0..MaxId :
              /\ (GetUser(users[g], id) = NULL /\ GetUser(users'[g], id) # NULL)
                    => (ev'.op = "AddUser" /\ ev'.mgr = g /\ ev'.ret = id)
              /\ (GetMachine(machines[g], id) = NULL
                    /\ GetMachine(machines'[g], id) # NULL)
                    => (ev'.op = "AddMachine" /\ ev'.mgr = g /\ ev'.ret = id)
        /\ (ev'.op = "GetUser" /\ ev'.arg \notin DOMAIN users[ev'.mgr])
              => ev'.ret = NULL
        /\ (ev'.op = "GetMachine" /\ ev'.arg \notin DOMAIN machines[ev'.mgr])
              => ev'.ret = NULL ]_vars

\* A registered user was removed by id while another stayed registered.
C11_Witness ==
    /\ ev.op = "RemoveUser" /\ ev.ok /\ ev.arg # 0
    /\ ev.arg \notin DOMAIN users[ev.mgr]
    /\ DOMAIN users[ev.mgr] # {}

\* -- query claims: helpers
Occurrences(seq, x) == Len(SelectSeq(seq, LAMBDA y : y = x))

JobSet(p) == Range(mobj[p].jobs)

DisjointJobSets(g) ==
    \A p, q \in Range(machines[g]) : p # q => JobSet(p) \cap JobSet(q) = {}

\* C12: when the machines of the manager hold pairwise disjoint job sets,
\* the vector ApplyPredicate<Job>(p) returns holds every job that some
\* registered machine holds and p is true of exactly once, and no other job.
C12_QueryPartition ==
    (ev.op = "ApplyPredicate<Job>" /\ DisjointJobSets(ev.mgr)) =>
        \A j \in Job :
            Occurrences(ev.trace, j) =
                (IF j \in ev.pred /\ \E p \in Range(machines[ev.mgr]) : j \in JobSet(p)
                 THEN 1 ELSE 0)

\* C13: the outcome of ApplyPredicate for a kind other than User, Machine and
\* Job differs from the outcome of a query of a supported kind that matches
\* nothing.
C13_UnsupportedKindDistinct ==
    ev.op = "ApplyPredicate<Other>" =>
        /\ ev.trace # ApplyPredicateJob(machines[ev.mgr], mobj, {})
        /\ ev.trace # ApplyPredicateUser(users[ev.mgr], {})
        /\ ev.trace # ApplyPredicateMachine(machines[ev.mgr], {})

\* C14: Run() returns only from the loop condition with the stop flag true;
\* it reaches Update only from the loop condition with the flag false, and
\* the loop condition only from the call or from the sleep, so the flag is
\* tested once per iteration, before the Update; after the flag became true
\* Run() makes at most one more Update and one more sleep; with the flag true
\* since the call it makes no Update; and a running Run() whose flag is true
\* returns unless the flag is cleared.
C14_RunStops ==
    /\ [][ /\ (runpc' = "done" /\ runpc # "done") => (runpc = "test" /\ stop)
           /\ (runpc' = "body" /\ runpc # "body") => (runpc = "test" /\ ~stop)
           /\ (runpc' = "test" /\ runpc # "test")
                 => runpc \in {"idle", "done", "sleep"}
           /\ (runpc' = "sleep" /\ runpc # "sleep")
                 => (runpc = "body" /\ ev'.op = "Update")
           /\ (ev'.op = "Update" /\ runpc' = runpc) => ev' = ev ]_vars
    /\ [](obs.lateUpdates <= 1 /\ obs.lateSleeps <= 1)
    /\ [](obs.held => runpc \in {"test", "done"})
    /\ ((stop /\ runpc \in {"test", "body", "sleep"}) ~> (runpc = "done" \/ ~stop))

\* Run() returned after the flag was set between the loop condition and the
\* Update: one late Update, one late sleep.
C14_Witness ==
    /\ runpc = "done" /\ stop
    /\ obs.lateUpdates = 1 /\ obs.lateSleeps = 1
    /\ ev.op = "Update" /\ Len(ev.trace) >= 2

\* C15: AddJob of a non-null job returns true exactly when a machine accepted
\* the offer; when it returns false, every registered machine was offered the
\* job exactly once, in ranked order, and rejected it, nothing else was
\* called, and machines, collections and counters are as before the call.
C15_NoCapacity ==
    [][ (ev'.op = "AddJob" /\ ev'.arg # NULL) =>
          LET o == Offers(ev')
          IN  /\ ev'.ok <=> (\E i \in 1..Len(o) : o[i].res)
              /\ ~ev'.ok =>
                    /\ ev'.trace = o
                    /\ Len(o) = Cardinality(DOMAIN machines[ev'.mgr])
                    /\ \A p \in Range(machines[ev'.mgr]) : TimesOffered(ev', p) = 1
                    /\ \A i \in 1..Len(o) : o[i].arg = ev'.arg /\ ~o[i].res
                    /\ \A i, j \in 1..Len(o) :
                          i < j => RankedBefore(mobj, o[i].target, o[j].target)
                    /\ UNCHANGED << lastUserId, lastMachineId, mgrs, users,
                                    machines, uobj, mobj >> ]_vars

\* Two machines, the better one with a free slot and the other one full, both
\* rejected the job.
C15_Witness ==
    /\ ev.op = "AddJob" /\ ev.arg # NULL /\ ~ev.ok /\ Len(ev.trace) = 2
    /\ Len(mobj[ev.trace[1].target].jobs) < mobj[ev.trace[1].target].maxJobs
    /\ Len(mobj[ev.trace[2].target].jobs) = mobj[ev.trace[2].target].maxJobs

\* C16: AddUser(NULL) and AddMachine(NULL) return 0, AddJob(NULL) returns
\* false, AddJobByUser with a null user or a null job returns false; none of
\* them calls a user or a machine, and none changes counters, collections,
\* users or machines.
C16_NullArguments ==
    [][ ( \/ ev'.op \in {"AddUser", "AddMachine"} /\ ev'.ptr = NULL
          \/ ev'.op = "AddJob" /\ ev'.arg = NULL
          \/ ev'.op = "AddJobByUser" /\ (ev'.ptr = NULL \/ ev'.arg = NULL) )
        => /\ ev'.ret = 0
           /\ ~ev'.ok
           /\ ev'.trace = << >>
           /\ UNCHANGED << lastUserId, lastMachineId, mgrs, users, machines,
                           uobj, mobj >> ]_vars

\* A registered user submitted a null job while a machine had a free slot.
C16_Witness ==
    /\ ev.op = "AddJobByUser" /\ ev.ptr # NULL /\ ev.arg = NULL /\ ~ev.ok
    /\ ev.ptr \in Range(users[ev.mgr])
    /\ \E p \in Range(machines[ev.mgr]) : Len(mobj[p].jobs) < mobj[p].maxJobs

\* -- removal claims: helpers
\* Map m2 is map m1 without its entry k, every other entry as it was.
WithoutEntry(m1, m2, k) ==
    /\ k \in DOMAIN m1
    /\ DOMAIN m2 = (DOMAIN m1) \ {k}
    /\ \A x \in DOMAIN m2 : m2[x] = m1[x]

\* C17: RemoveUser / RemoveMachine, by id or by pointer, returns true exactly
\* when the id is a key / the pointer is a value of the manager's collection;
\* on false nothing changes; on true the one matching entry is gone and its
\* entity deleted, and every other entry of every collection, every other
\* entity and both counters are as before.
C17_RemoveFrame ==
    [][ LET g == ev'.mgr
        IN  /\ ev'.op = "RemoveUser" =>
                  /\ ev'.ok <=> ev'.arg \in DOMAIN users[g]
                  /\ ev'.ok =>
                        /\ WithoutEntry(users[g], users'[g], ev'.arg)
                        /\ \A p \in UPtr \ {users[g][ev'.arg]} : uobj'[p] = uobj[p]
                        /\ ~uobj'[users[g][ev'.arg]].alloc
            /\ ev'.op = "RemoveUserPtr" =>
                  /\ ev'.ok <=> ev'.ptr \in Range(users[g])
                  /\ ev'.ok =>
                        /\ \E k \in DOMAIN users[g] :
                              /\ users[g][k] = ev'.ptr
                              /\ WithoutEntry(users[g], users'[g], k)
                        /\ \A p \in UPtr \ {ev'.ptr} : uobj'[p] = uobj[p]
                        /\ ~uobj'[ev'.ptr].alloc
            /\ ev'.op = "RemoveMachine" =>
                  /\ ev'.ok <=> ev'.arg \in DOMAIN machines[g]
                  /\ ev'.ok =>
                        /\ WithoutEntry(machines[g], machines'[g], ev'.arg)
                        /\ \A p \in MPtr \ {machines[g][ev'.arg]} :
                              mobj'[p] = mobj[p]
                        /\ ~mobj'[machines[g][ev'.arg]].alloc
            /\ ev'.op = "RemoveMachinePtr" =>
                  /\ ev'.ok <=> ev'.ptr \in Range(machines[g])
                  /\ ev'.ok =>
                        /\ \E k \in DOMAIN machines[g] :
                              /\ machines[g][k] = ev'.ptr
                              /\ WithoutEntry(machines[g], machines'[g], k)
                        /\ \A p \in MPtr \ {ev'.ptr} : mobj'[p] = mobj[p]
                        /\ ~mobj'[ev'.ptr].alloc
            /\ ev'.op \in {"RemoveUser", "RemoveUserPtr", "RemoveMachine",
                           "RemoveMachinePtr"} =>
                  /\ UNCHANGED << lastUserId, lastMachineId, mgrs >>
                  /\ \A h \in Mgr \ {g} :
                        users'[h] = users[h] /\ machines'[h] = machines[h]
                  /\ ev'.op \in {"RemoveUser", "RemoveUserPtr"} =>
                        UNCHANGED << machines, mobj >>
                  /\ ev'.op \in {"RemoveMachine", "RemoveMachinePtr"} =>
                        UNCHANGED << users, uobj >>
                  /\ ~ev'.ok => UNCHANGED << users, machines, uobj, mobj >> ]_vars

\* One of two registered users was removed through its pointer.
C17_Witness ==
    /\ ev.op = "RemoveUserPtr" /\ ev.ok /\ ev.ptr # NULL
    /\ Cardinality(DOMAIN users[ev.mgr]) = 1
    /\ ev.ptr \notin Range(users[ev.mgr])

\* -- explicit-id claims: helpers
\* Map m2 is map m1 with key k mapped to p, every other entry as it was.
WithEntry(m1, m2, k, p) ==
    /\ DOMAIN m2 = (DOMAIN m1) \cup {k}
    /\ m2[k] = p
    /\ \A x \in (DOMAIN m1) \ {k} : m2[x] = m1[x]

\* C18: AddUser / AddMachine of an entity whose id k is not 0 returns k, maps
\* k to the entity and leaves every other entry and both counters as they
\* were; when k was a key already, the collection keeps its size, the call
\* still returns k, and the entity mapped before is neither deleted nor
\* changed.
C18_ExplicitIdOverwrite ==
    [][ LET g == ev'.mgr
            k == ev'.arg
        IN  /\ (ev'.op = "AddUser" /\ ev'.ptr # NULL /\ k # 0) =>
                  /\ ev'.ret = k
                  /\ WithEntry(users[g], users'[g], k, ev'.ptr)
                  /\ UNCHANGED << lastUserId, lastMachineId, machines, mobj >>
                  /\ k \in DOMAIN users[g] =>
                        /\ Cardinality(DOMAIN users'[g])
                              = Cardinality(DOMAIN users[g])
                        /\ uobj'[users[g][k]] = uobj[users[g][k]]
                        /\ uobj'[users[g][k]].alloc
            /\ (ev'.op = "AddMachine" /\ ev'.ptr # NULL /\ k # 0) =>
                  /\ ev'.ret = k
                  /\ WithEntry(machines[g], machines'[g], k, ev'.ptr)
                  /\ UNCHANGED << lastUserId, lastMachineId, users, uobj >>
                  /\ k \in DOMAIN machines[g] =>
                        /\ Cardinality(DOMAIN machines'[g])
                              = Cardinality(DOMAIN machines[g])
                        /\ mobj'[machines[g][k]] = mobj[machines[g][k]]
                        /\ mobj'[machines[g][k]].alloc ]_vars

\* A user with a preset id took the key of a registered user, which is still
\* on the heap, outside the map.
C18_Witness ==
    /\ ev.op = "AddUser" /\ ev.ptr # NULL /\ ev.arg # 0 /\ ev.ret = ev.arg
    /\ users[ev.mgr][ev.arg] = ev.ptr
    /\ lastUserId < ev.arg
    /\ \E p \in UPtr \ {ev.ptr} :
          /\ uobj[p].alloc /\ uobj[p].owner = ev.mgr /\ uobj[p].id = ev.arg
          /\ p \notin Range(users[ev.mgr])

\* C19: a Load or an Add* call of one manager changes neither the counters
\* nor the collections that any other manager of the process observes.
C19_CountersPerManager ==
    [][ ev'.op \in {"Load", "AddUser", "AddMachine"} =>
          \A h \in mgrs \ {ev'.mgr} :
              /\ lastUserId' = lastUserId
              /\ lastMachineId' = lastMachineId
              /\ users'[h] = users[h]
              /\ machines'[h] = machines[h] ]_vars

\* C20: over Add*, Remove*, Save and Load neither lastUserId nor
\* lastMachineId ever decreases.
C20_CountersNeverDecrease ==
    [][ lastUserId' >= lastUserId /\ lastMachineId' >= lastMachineId ]_vars

====
